---------------------------- MODULE Spec2Model ----------------------------
(***************************************************************************)
(* The license Status Store of the offline license console                 *)
(* (frontend/src/context/LicenseContext.jsx), the HTTP client it fetches   *)
(* through (frontend/src/api/httpClient.js, api/licenseApi.js) and the     *)
(* disabledReason helper of the feature-gating panel.                      *)
(*                                                                         *)
(* JavaScript values are tagged records: the tag t is the value's kind.    *)
(* An object carries its own properties p (a function from property names  *)
(* to values), an array its items a.                                       *)
(***************************************************************************)
EXTENDS Integers, Sequences, FiniteSets, TLC

VARIABLES
    license,      \* useState(null): the current snapshot, or null
    loading,      \* useState(false)
    error,        \* useState(null): the last error, or null
    pc,           \* per loadStatus() call: "idle", "pending", "fulfilled", "rejected"
    last,         \* the most recent store event: a call started, or a fetch settled (with its response)
    raced,        \* some loadStatus() call was made while another was pending
    errAtStart    \* per loadStatus() call: whether it was made in the errored state (no snapshot, an error recorded)

vars == <<license, loading, error, pc, last, raced, errAtStart>>

---------------------------------------------------------------------------
(* Bounds *)

\* loadStatus() calls in a run: call 1 is the mount effect, the others are clicks on "Refresh status".
MaxCalls == 3

Calls == 1..MaxCalls

---------------------------------------------------------------------------
(* JavaScript values *)

Undefined == [t |-> "undefined"]
JNull == [t |-> "null"]
JBool(b) == [t |-> "boolean", b |-> b]
JNum(n) == [t |-> "number", n |-> n]
JStr(s) == [t |-> "string", s |-> s]
JObj(props) == [t |-> "object", p |-> props]
JArr(items) == [t |-> "array", a |-> items]
JFun == [t |-> "function"]

NoProps == [k \in {} |-> Undefined]
EmptyObject == JObj(NoProps)

\* typeof v
TypeOf(v) ==
    CASE v.t = "null" -> "object"
      [] v.t = "array" -> "object"
      [] OTHER -> v.t

\* Boolean(v), !v
Truthy(v) ==
    CASE v.t = "undefined" -> FALSE
      [] v.t = "null" -> FALSE
      [] v.t = "boolean" -> v.b
      [] v.t = "number" -> v.n # 0
      [] v.t = "string" -> v.s # ""
      [] OTHER -> TRUE

\* v === undefined || v === null, the test of ??
Nullish(v) == v.t \in {"undefined", "null"}

\* a ?? b
Coalesce(a, b) == IF Nullish(a) THEN b ELSE a

\* a || b
OrElse(a, b) == IF Truthy(a) THEN a ELSE b

Digit(d) == CASE d = 0 -> "0" [] d = 1 -> "1" [] d = 2 -> "2" [] d = 3 -> "3" [] d = 4 -> "4"
              [] d = 5 -> "5" [] d = 6 -> "6" [] d = 7 -> "7" [] d = 8 -> "8" [] d = 9 -> "9"

RECURSIVE NatStr(_)
NatStr(n) == IF n < 10 THEN Digit(n) ELSE NatStr(n \div 10) \o Digit(n % 10)

\* String(n) of an integer
NumStr(n) == IF n < 0 THEN "-" \o NatStr(-n) ELSE NatStr(n)

\* String(v), the conversion a template literal `${v}` applies
RECURSIVE ToStr(_)
RECURSIVE JoinItems(_)
JoinItems(items) ==
    IF Len(items) = 0 THEN ""
    ELSE LET h == IF Nullish(Head(items)) THEN "" ELSE ToStr(Head(items))
         IN IF Len(items) = 1 THEN h ELSE h \o "," \o JoinItems(Tail(items))
ToStr(v) ==
    CASE v.t = "undefined" -> "undefined"
      [] v.t = "null" -> "null"
      [] v.t = "boolean" -> (IF v.b THEN "true" ELSE "false")
      [] v.t = "number" -> NumStr(v.n)
      [] v.t = "string" -> v.s
      [] v.t = "array" -> JoinItems(v.a)
      [] v.t = "function" -> "function () { [native code] }"
      [] OTHER -> "[object Object]"

\* Properties every value inherits from Object.prototype: o[k] finds them when
\* k is no own property.  __proto__ is an accessor that yields the prototype
\* object itself; the others named here are methods.
InheritedMethods == {"constructor", "toString", "valueOf", "hasOwnProperty"}

Inherited(k) ==
    IF k = "__proto__" THEN EmptyObject
    ELSE IF k \in InheritedMethods THEN JFun
    ELSE Undefined

\* o[k] for a string k, on a value that is neither undefined nor null
Get(o, k) ==
    CASE o.t = "object" -> (IF k \in DOMAIN o.p THEN o.p[k] ELSE Inherited(k))
      [] o.t = "array" -> (IF k = "length" THEN JNum(Len(o.a)) ELSE Inherited(k))
      [] o.t = "string" -> (IF k = "length" THEN JNum(Len(o.s)) ELSE Inherited(k))
      [] OTHER -> Inherited(k)

\* k in o, for an object or an array o
HasProperty(o, k) ==
    \/ o.t = "object" /\ k \in DOMAIN o.p
    \/ o.t = "array" /\ k = "length"
    \/ k = "__proto__"
    \/ k \in InheritedMethods

---------------------------------------------------------------------------
(* The HTTP client: httpClient.js, licenseApi.js *)

\* A response body as response.text() yields it: the empty string, the JSON
\* text of a value, or a non-empty text that is not JSON.
EmptyText == [k |-> "empty"]
JsonText(v) == [k |-> "json", v |-> v]
PlainText(s) == [k |-> "plain", s |-> s]

\* if (text): a string is truthy unless empty
TextTruthy(text) == text.k # "empty"

\* JSON.parse(text): the value, or a SyntaxError
JSONparse(text) ==
    IF text.k = "json" THEN [ok |-> TRUE, v |-> text.v] ELSE [ok |-> FALSE]

\* What fetch() does: it rejects (no connection), or resolves with a response.
NetworkFailure == [kind |-> "network"]
HttpResponse(status, text) == [kind |-> "http", status |-> status, text |-> text]

\* response.ok
ResponseOk(resp) == resp.status \in 200..299

\* An Error object: its message, and the status and data request() attaches.
JError(message, status, data) ==
    [t |-> "error", message |-> message, status |-> status, data |-> data]

Resolved(v) == [kind |-> "resolved", value |-> v]
Rejected(e) == [kind |-> "rejected", value |-> e]

\* data after the body was read: null for an empty body, the parsed value,
\* or the text itself when JSON.parse throws
ResponseData(text) ==
    IF ~TextTruthy(text) THEN JNull
    ELSE LET parsed == JSONparse(text)
         IN IF parsed.ok THEN parsed.v ELSE JStr(text.s)

\* Mutant: the response.ok test is missing.
requestIgnoresStatus(resp) ==
    IF resp.kind = "network"
    THEN Rejected(JError("Failed to fetch", Undefined, Undefined))
    ELSE Resolved(ResponseData(resp.text))

\* request(path, options), as the settlement of the promise it returns
request(resp) ==
    IF resp.kind = "network"
    THEN Rejected(JError("Failed to fetch", Undefined, Undefined))
    ELSE LET data == ResponseData(resp.text)
         IN IF ~ResponseOk(resp)
            THEN Rejected(JError("HTTP " \o NumStr(resp.status), JNum(resp.status), data))
            ELSE Resolved(data)

get(resp) == request(resp)

fetchLicenseStatus(resp) == get(resp)

---------------------------------------------------------------------------
(* The Normalizer and the Entitlement Evaluator: LicenseContext.jsx *)

\* the object literal normalizeLicenseStatus returns
Snapshot(raw) ==
    [ status |-> Coalesce(Get(raw, "status"), JStr("unknown")),
      statusMessage |-> Coalesce(Get(raw, "status_message"), JStr("")),
      isValid |-> Truthy(Get(raw, "is_valid")),
      licenseId |-> Coalesce(Get(raw, "license_id"), JNull),
      customerName |-> Coalesce(Get(raw, "customer_name"), JNull),
      editionCode |-> Coalesce(Get(raw, "edition_code"), JNull),
      editionName |-> Coalesce(Get(raw, "edition_name"), JNull),
      licenseType |-> Coalesce(Get(raw, "license_type"), JNull),
      validFrom |-> Coalesce(Get(raw, "valid_from"), JNull),
      validUntil |-> Coalesce(Get(raw, "valid_until"), JNull),
      features |-> OrElse(Get(raw, "features"), EmptyObject),
      limits |-> OrElse(Get(raw, "limits"), EmptyObject),
      warnings |-> (IF Get(raw, "warnings").t = "array"
                    THEN Get(raw, "warnings") ELSE JArr(<<>>)),
      raw |-> raw ]

\* Mutant: warnings defaulted with ?? instead of the Array.isArray test.
normalizeUncheckedWarnings(raw) ==
    IF ~Truthy(raw) THEN JNull
    ELSE [Snapshot(raw) EXCEPT !.warnings = Coalesce(Get(raw, "warnings"), JArr(<<>>))]

normalizeLicenseStatus(raw) ==
    IF ~Truthy(raw) THEN JNull ELSE Snapshot(raw)

\* the flag lookup of canUse, below its two guards
FlagGrants(lic, featureKey) ==
    LET features == OrElse(lic.features, EmptyObject)
        feature == Get(features, featureKey.s)
    IN IF feature = Undefined THEN FALSE
       ELSE IF TypeOf(feature) = "boolean" THEN feature.b
       ELSE IF TypeOf(feature) = "object" /\ feature # JNull
            THEN (IF HasProperty(feature, "enabled")
                  THEN Truthy(Get(feature, "enabled"))
                  ELSE TRUE)
       ELSE FALSE

\* Mutant: the guard tests only that a license is there, not that it is valid.
canUseIgnoresValidity(lic, featureKey) ==
    IF lic = JNull THEN FALSE
    ELSE IF ~Truthy(featureKey) THEN TRUE
    ELSE FlagGrants(lic, featureKey)

\* canUse(featureKey) with the license it closes over as a parameter
canUseWith(lic, featureKey) ==
    IF lic = JNull \/ ~lic.isValid THEN FALSE
    ELSE IF ~Truthy(featureKey) THEN TRUE
    ELSE FlagGrants(lic, featureKey)

canUse(featureKey) == canUseWith(license, featureKey)

\* Mutant: the invalid-license branch is missing.
disabledReasonNoStatus(featureKey, allowed) ==
    IF allowed THEN JNull
    ELSE IF license = JNull THEN JStr("No license installed")
    ELSE JStr("Feature '" \o ToStr(featureKey) \o "' is not granted in this license")

\* disabledReason(featureKey, allowed) of FeatureGatingDemo; null is JNull,
\* a message is the string itself
disabledReason(featureKey, allowed) ==
    IF allowed THEN JNull
    ELSE IF license = JNull THEN JStr("No license installed")
    ELSE IF ~license.isValid THEN JStr("License status: " \o ToStr(license.status))
    ELSE JStr("Feature '" \o ToStr(featureKey) \o "' is not granted in this license")

---------------------------------------------------------------------------
(* The inputs: what the licensing endpoint may answer *)

\* features mappings, covering every shape of flag canUse tells apart
FeaturesGranted ==
    JObj([pipeline_execution |-> JBool(TRUE),
          advanced_export |-> JBool(FALSE),
          custom_connectors |-> JObj([enabled |-> JBool(TRUE)])])
FeaturesDescriptors ==
    JObj([pipeline_execution |-> JObj([enabled |-> JBool(FALSE)]),
          advanced_export |-> JObj([note |-> JStr("x")])])
FeaturesCoerced ==
    JObj([pipeline_execution |-> JObj([enabled |-> JNum(1)]),
          advanced_export |-> JObj([enabled |-> JStr("")]),
          custom_connectors |-> JNum(1)])
FeaturesOdd ==
    JObj([pipeline_execution |-> JStr("yes"),
          advanced_export |-> JNull,
          custom_connectors |-> JArr(<<>>)])

FeatureMaps ==
    {FeaturesGranted, FeaturesDescriptors, FeaturesCoerced, FeaturesOdd, EmptyObject}

ActiveDoc(features) ==
    JObj([status |-> JStr("active"), is_valid |-> JBool(TRUE), features |-> features])

ExpiredDoc ==
    JObj([status |-> JStr("expired"), status_message |-> JStr("License expired"),
          is_valid |-> JBool(FALSE), features |-> FeaturesGranted,
          warnings |-> JArr(<<JStr("expired")>>)])

\* documents with wrong-typed fields
WrongTypedDoc ==
    JObj([status |-> JNum(42), status_message |-> JNum(7), is_valid |-> JStr("yes"),
          features |-> JStr("abc"), limits |-> JNum(5), warnings |-> JStr("oops")])
FalsyFieldsDoc ==
    JObj([status |-> JStr(""), status_message |-> JNum(0), is_valid |-> JNum(0),
          features |-> JBool(FALSE), limits |-> JNum(0), warnings |-> EmptyObject])
NullFieldsDoc ==
    JObj([status |-> JNull, status_message |-> JNull, is_valid |-> JNum(1),
          features |-> JNull, limits |-> JNull, warnings |-> JNull])

\* JSON values that are no mapping at all
NonDocuments ==
    {JNull, JNum(0), JBool(FALSE), JStr(""), JNum(7), JStr("ok"), JArr(<<>>)}

RawDocs ==
    {ActiveDoc(f) : f \in FeatureMaps}
        \cup {ExpiredDoc, EmptyObject, WrongTypedDoc, FalsyFieldsDoc, NullFieldsDoc}
        \cup NonDocuments

NotJson == PlainText("<html>Bad Gateway</html>")

Responses ==
    {NetworkFailure}
        \cup {HttpResponse(200, JsonText(d)) : d \in RawDocs}
        \cup {HttpResponse(200, EmptyText), HttpResponse(200, NotJson)}
        \cup {HttpResponse(500, EmptyText), HttpResponse(500, NotJson),
              HttpResponse(500, JsonText(ExpiredDoc)),
              HttpResponse(404, JsonText(JObj([detail |-> JStr("Not found")])))}

\* the feature keys consumers ask about: none, the empty key, the three of
\* FeatureGatingDemo, and two names no license mentions
FeatureKeys ==
    {Undefined, JStr(""), JStr("pipeline_execution"), JStr("advanced_export"),
     JStr("custom_connectors"), JStr("__proto__"), JStr("constructor")}

---------------------------------------------------------------------------
(* The Status Store: LicenseProvider *)

Pending == {c \in Calls : pc[c] = "pending"}

\* Mutant: starting a refresh also drops the current snapshot.
StartStateClearsLicense == [license |-> JNull, loading |-> TRUE, error |-> JNull]

\* loadStatus() up to its await: setLoading(true), setError(null)
StartState == [license |-> license, loading |-> TRUE, error |-> JNull]

\* the try branch and finally: setLicense(normalized), setLoading(false);
\* the promise loadStatus() returned is fulfilled
TryState(raw) ==
    [license |-> normalizeLicenseStatus(raw), loading |-> FALSE, error |-> error,
     promise |-> "fulfilled"]

\* Mutant: the catch branch does not call setLicense(null).
CatchStateKeepsLicense(err) ==
    [license |-> license, loading |-> FALSE, error |-> err, promise |-> "fulfilled"]

\* Mutant: setLoading(false) sits at the end of the try block, not in finally.
CatchStateStillLoading(err) ==
    [license |-> JNull, loading |-> loading, error |-> err, promise |-> "fulfilled"]

\* the catch branch and finally: setError(err), setLicense(null),
\* setLoading(false); the error is not rethrown
CatchState(err) ==
    [license |-> JNull, loading |-> FALSE, error |-> err, promise |-> "fulfilled"]

loadStatusStart(c) ==
    /\ pc[c] = "idle"
    /\ license' = StartState.license
    /\ loading' = StartState.loading
    /\ error' = StartState.error
    /\ pc' = [pc EXCEPT ![c] = "pending"]
    /\ last' = [ev |-> "start", call |-> c]
    /\ raced' = (raced \/ Pending # {})
    /\ errAtStart' = [errAtStart EXCEPT ![c] = (error # JNull /\ license = JNull)]

\* the continuation of loadStatus() once its fetch has settled
loadStatusSettle(c, resp) ==
    /\ pc[c] = "pending"
    /\ LET settled == fetchLicenseStatus(resp)
           next == IF settled.kind = "resolved"
                   THEN TryState(settled.value)
                   ELSE CatchState(settled.value)
       IN /\ license' = next.license
          /\ loading' = next.loading
          /\ error' = next.error
          /\ pc' = [pc EXCEPT ![c] = next.promise]
    /\ last' = [ev |-> "settle", call |-> c, resp |-> resp]
    /\ UNCHANGED <<raced, errAtStart>>

\* useEffect(() => { loadStatus() }, []): the automatic refresh on mount
Mount == loadStatusStart(1)

\* onClick={refreshLicenseStatus}: calls are numbered in the order they are made
Refresh(c) ==
    /\ c > 1
    /\ pc[c - 1] # "idle"
    /\ loadStatusStart(c)

Settle(c, resp) == loadStatusSettle(c, resp)

Init ==
    /\ license = JNull
    /\ loading = FALSE
    /\ error = JNull
    /\ pc = [c \in Calls |-> "idle"]
    /\ last = [ev |-> "none"]
    /\ raced = FALSE
    /\ errAtStart = [c \in Calls |-> FALSE]

Next ==
    \/ Mount
    \/ \E c \in Calls : Refresh(c)
    \/ \E c \in Calls, resp \in Responses : Settle(c, resp)

Spec == Init /\ [][Next]_vars

---------------------------------------------------------------------------
(* Properties *)

\* the most recent store event is the completion of a refresh
JustSettled == last.ev = "settle"

\* how the fetch of that refresh settled
LastOutcome == fetchLicenseStatus(last.resp)

\* the fetch of the refresh that just completed resolved with a document
ResolvedWithDocument ==
    JustSettled /\ LastOutcome.kind = "resolved" /\ LastOutcome.value.t = "object"

StringKeys == {k \in FeatureKeys : k.t = "string"}

\* C1: last-write-wins.  Once refreshes have overlapped and all of them have
\* completed, snapshot and lastError are what the refresh that completed last
\* produces on its own: after a success the normalized result and no error,
\* after a failure no snapshot and its error.
C1_LastWriteWins ==
    (raced /\ Pending = {} /\ (ResolvedWithDocument \/ (JustSettled /\ LastOutcome.kind = "rejected"))) =>
        IF LastOutcome.kind = "resolved"
        THEN license = normalizeLicenseStatus(LastOutcome.value) /\ error = JNull
        ELSE license = JNull /\ error = LastOutcome.value

\* C2: a refresh whose fetch rejects, with no other refresh in flight, completes
\* without rethrowing and leaves loading = false, snapshot = null, lastError =
\* the rejection, and canUse false for every key.
C2_FailureOutcome ==
    (JustSettled /\ Pending = {} /\ LastOutcome.kind = "rejected") =>
        /\ pc[last.call] = "fulfilled"
        /\ loading = FALSE
        /\ license = JNull
        /\ error = LastOutcome.value
        /\ \A k \in FeatureKeys : ~canUse(k)

\* C2 witness: a refresh failed after a snapshot had been installed by an
\* earlier one, and nothing is in flight.
C2_Witness ==
    /\ JustSettled /\ Pending = {}
    /\ LastOutcome.kind = "rejected"
    /\ last.call > 1
    /\ ~errAtStart[last.call]
    /\ error # JNull

\* a response whose body is not empty and is not JSON
Unparsable(resp) ==
    resp.kind = "http" /\ TextTruthy(resp.text) /\ ~JSONparse(resp.text).ok

C4_InvalidGrantsNothing ==
    \A k \in FeatureKeys : canUse(k) => (license # JNull /\ license.isValid)

\* C4 witness: an invalid license whose features grant pipeline_execution.
C4_Witness ==
    /\ license # JNull
    /\ ~license.isValid
    /\ license.features.t = "object"
    /\ "pipeline_execution" \in DOMAIN license.features.p
    /\ license.features.p["pipeline_execution"] = JBool(TRUE)
    /\ ~canUse(JStr("pipeline_execution"))

\* what C5 says canUse answers on a valid snapshot whose features are a mapping
FlagTable(features, k) ==
    IF ~Truthy(k) THEN TRUE
    ELSE IF k.s \notin DOMAIN features.p THEN FALSE
    ELSE LET f == features.p[k.s]
         IN CASE f.t = "boolean" -> f.b
              [] f.t = "object" -> (IF "enabled" \in DOMAIN f.p THEN Truthy(f.p["enabled"]) ELSE TRUE)
              [] f.t = "array" -> TRUE
              [] OTHER -> FALSE

\* C5: on a valid snapshot, canUse is true for an absent or empty key, false
\* for a key that features does not hold, the flag itself for a boolean, the
\* coercion of enabled for a descriptor that has it, true for a descriptor
\* without it, and false for any other shape.
C5_FlagResolution ==
    (license # JNull /\ license.isValid /\ license.features.t = "object") =>
        \A k \in FeatureKeys : canUse(k) = FlagTable(license.features, k)

\* C5, for the keys that are not the name of the prototype accessor: holds.
C5_FlagResolutionOrdinaryKeys ==
    (license # JNull /\ license.isValid /\ license.features.t = "object") =>
        \A k \in FeatureKeys \ {JStr("__proto__")} :
            canUse(k) = FlagTable(license.features, k)

SnapshotFields ==
    {"status", "statusMessage", "isValid", "licenseId", "customerName", "editionCode",
     "editionName", "licenseType", "validFrom", "validUntil", "features", "limits",
     "warnings", "raw"}

C7_Recovery ==
    (ResolvedWithDocument /\ errAtStart[last.call]) =>
        /\ error = JNull
        /\ loading = FALSE
        /\ license = normalizeLicenseStatus(LastOutcome.value)

\* C7, when no refresh was ever started while another was pending: holds.
C7_RecoverySequential ==
    (~raced /\ ResolvedWithDocument /\ errAtStart[last.call]) =>
        /\ error = JNull
        /\ loading = FALSE
        /\ license = normalizeLicenseStatus(LastOutcome.value)

\* C8: disabledReason is null when allowed; otherwise the no-license message
\* without a snapshot, else the message with snapshot.status when the snapshot
\* is invalid, else the message naming the feature key.
C8_ReasonPrecedence ==
    \A k \in StringKeys, allowed \in BOOLEAN :
        LET reason == disabledReason(k, allowed)
        IN /\ allowed => reason = JNull
           /\ (~allowed /\ license = JNull) => reason = JStr("No license installed")
           /\ (~allowed /\ license # JNull /\ ~license.isValid) =>
                 reason = JStr("License status: " \o ToStr(license.status))
           /\ (~allowed /\ license # JNull /\ license.isValid) =>
                 reason = JStr("Feature '" \o k.s \o "' is not granted in this license")

\* C8 witness: an expired license that lists pipeline_execution: the reason
\* is the status, not the feature.
C8_Witness ==
    /\ license # JNull
    /\ ~license.isValid
    /\ license.status = JStr("expired")
    /\ disabledReason(JStr("pipeline_execution"), FALSE) = JStr("License status: expired")

\* C9 as stated: loading is true whenever a refresh is in flight.
C9_LoadingTracksInFlight == (Pending # {}) => loading

\* C9 as amended: loading is true exactly while the most recent store event is
\* the start of a refresh (each refresh sets it when it starts and clears it
\* when it completes, whatever else is in flight).  So loading = true implies
\* that a refresh is in flight, and while no refresh has been started with
\* another pending, loading is true iff a refresh is in flight.
C9_LoadingLastEvent ==
    /\ loading <=> (last.ev = "start")
    /\ loading => Pending # {}
    /\ ~raced => (loading <=> Pending # {})

\* C9 witness: of two overlapping refreshes one has completed and cleared
\* loading, the other is still pending.
C9_Witness == raced /\ JustSettled /\ Pending # {} /\ ~loading

\* C10: the start of a refresh sets loading, clears lastError and leaves the
\* snapshot, and with it every canUse answer, as it was; the snapshot changes
\* only in a step that completes a refresh.
C10_StartFrame ==
    [][ /\ \A c \in Calls :
              (pc[c] = "idle" /\ pc'[c] = "pending") =>
                  /\ license' = license
                  /\ loading' = TRUE
                  /\ error' = JNull
                  /\ \A k \in FeatureKeys : canUseWith(license', k) = canUseWith(license, k)
        /\ license' # license =>
              \E c \in Calls : pc[c] = "pending" /\ pc'[c] \in {"fulfilled", "rejected"}
      ]_vars

\* C10 witness: a refresh is pending while the snapshot installed before it
\* still grants a feature.
C10_Witness ==
    /\ last.ev = "start"
    /\ pc[last.call] = "pending"
    /\ license # JNull
    /\ canUse(JStr("pipeline_execution"))

===========================================================================
